---- MODULE Spec2Model ----
(***************************************************************************)
(* Model of potential_cloud_shadow_snow_mask                               *)
(* (l4-7_cfmask/src/potential_cloud_shadow_snow_mask.c).                   *)
(*                                                                         *)
(* Floating point values are modelled as exact rationals [n, d] with       *)
(* d > 0; the IEEE NaN produced by 0.0/0.0 is the record with d = 0 and    *)
(* every ordered comparison with it is FALSE.  MINSIGMA is a positive      *)
(* epsilon smaller than every non-zero difference that arises from the     *)
(* enumerated pixel values, so  x - c < MINSIGMA  is  x <= c  and          *)
(* x - c > MINSIGMA  is  x > c.                                            *)
(* Bit masks are modelled as sets of bit names.                            *)
(***************************************************************************)
EXTENDS Integers, Sequences, FiniteSets, TLC

(* ------------------------------ bounds --------------------------------- *)
MaxRows == 2
MaxCols == 2
MaxPix == 2

(* ----------------------------- constants ------------------------------- *)
FILL_PIXEL == -9999
SHRT_MAX == 32767
SHRT_MIN == -32768
Bands6 == {"blue", "green", "red", "nir", "swir1", "swir2"}
Bands5 == {"blue", "green", "red", "nir", "swir1"}
satu_value_ref == [b \in Bands6 |-> 20000]
satu_value_max == [b \in Bands6 |-> 16000]
therm_satu_value_ref == 20000
therm_satu_value_max == 6000

(* ----------------------------- rationals ------------------------------- *)
Abs(x) == IF x < 0 THEN -x ELSE x

RECURSIVE GCD(_, _)
GCD(a, b) == IF b = 0 THEN a ELSE GCD(b, a % b)

NaN == [n |-> 0, d |-> 0]
IsNaN(x) == x.d = 0

\* n / d in lowest terms with a positive denominator, g = gcd (|n|, |d|)
Reduce(n, d, g) == IF d < 0 THEN [n |-> (-n) \div g, d |-> (-d) \div g]
                   ELSE [n |-> n \div g, d |-> d \div g]

Rat(n, d) == IF d = 0 THEN NaN ELSE Reduce(n, d, GCD(Abs(n), Abs(d)))

RInt(i) == [n |-> i, d |-> 1]
Zero == RInt(0)

\* a with the factors it shares with b divided out
Cancel(a, b) == a \div GCD(Abs(a), Abs(b))

RAdd(x, y) == IF IsNaN(x) \/ IsNaN(y) THEN NaN
              ELSE Rat(x.n * Cancel(y.d, x.d) + y.n * Cancel(x.d, y.d),
                       x.d * Cancel(y.d, x.d))
RSub(x, y) == RAdd(x, [n |-> -y.n, d |-> y.d])
RMul(x, y) == IF IsNaN(x) \/ IsNaN(y) THEN NaN
              ELSE Rat(Cancel(x.n, y.d) * Cancel(y.n, x.d),
                       Cancel(x.d, y.n) * Cancel(y.d, x.n))
RDiv(x, y) == IF IsNaN(x) \/ IsNaN(y) \/ y.n = 0 THEN NaN
              ELSE RMul(x, Rat(y.d, y.n))
RLt(x, y) == /\ ~IsNaN(x) /\ ~IsNaN(y)
             /\ x.n * Cancel(y.d, x.d) < y.n * Cancel(x.d, y.d)
RLe(x, y) == /\ ~IsNaN(x) /\ ~IsNaN(y)
             /\ x.n * Cancel(y.d, x.d) <= y.n * Cancel(x.d, y.d)
RGt(x, y) == RLt(y, x)
RGe(x, y) == RLe(y, x)

(* comparisons written with MINSIGMA in the source *)
LtEps(x, c) == RLe(x, c)    \* (x - c) <  MINSIGMA
LeEps(x, c) == RLe(x, c)    \* (x - c) <= MINSIGMA
GtEps(x, c) == RGt(x, c)    \* (x - c) >  MINSIGMA
GeEps(x, c) == RGt(x, c)    \* (x - c) >= MINSIGMA

(* ------------------------------ inputs --------------------------------- *)
Px(b, g, r, n, s1, s2, t) ==
    [blue |-> b, green |-> g, red |-> r, nir |-> n, swir1 |-> s1,
     swir2 |-> s2, therm |-> t]

\* the pixel values an input line may hold: fill, thermal below fill,
\* vegetation, water, cloud, cloud over water, saturated, warm cloud,
\* very cold water, snow, bright and strongly coloured, vegetation with the
\* largest int16 thermal value, land with all visible bands 0, water with
\* the smallest int16 value in SWIR1
Pixels ==
    {Px(FILL_PIXEL, FILL_PIXEL, FILL_PIXEL, FILL_PIXEL, FILL_PIXEL,
        FILL_PIXEL, FILL_PIXEL),
     Px(400, 500, 600, 3000, 1500, 800, -10000),
     Px(400, 500, 600, 3000, 1500, 800, 2500),
     Px(500, 500, 400, 200, 100, 50, 2800),
     Px(5000, 5000, 5000, 5000, 4000, 3000, 500),
     Px(2000, 1500, 1000, 1000, 800, 400, 1000),
     Px(20000, 20000, 20000, 20000, 20000, 20000, 2000),
     Px(5000, 5000, 5000, 5000, 4000, 3000, 2600),
     Px(500, 500, 400, 200, 100, 50, -2000),
     Px(8000, 8500, 8000, 4000, 1000, 400, 500),
     Px(3000, 1000, 1000, 2000, 1000, 500, 1000),
     Px(400, 500, 600, 3000, 1500, 800, SHRT_MAX),
     Px(0, 0, 0, 1000, 500, 400, 1000),
     Px(500, 500, 400, 200, SHRT_MIN, 50, 2800)}

(* --------------------------- mask encodings ---------------------------- *)
CF_FILL_BIT == "FILL"
CF_CLOUD_BIT == "CLOUD"
CF_SHADOW_BIT == "SHADOW"
CF_SNOW_BIT == "SNOW"
CF_WATER_BIT == "WATER"
CF_CLEAR_NONE == {}
CF_CLEAR_FILL_BIT == "CLEAR_FILL"
CF_CLEAR_BIT == "CLEAR"
CF_CLEAR_LAND_BIT == "CLEAR_LAND"
CF_CLEAR_WATER_BIT == "CLEAR_WATER"
CONF_UNSET == "UNSET"
CLOUD_CONFIDENCE_LOW == "LOW"
CLOUD_CONFIDENCE_MED == "MED"
CLOUD_CONFIDENCE_HIGH == "HIGH"
CF_FILL_PIXEL == "FILL_PIXEL"

\* m | bit   and   m & ~bit
SetBit(m, b) == m \cup {b}
ClearBit(m, b) == m \ {b}
PutBit(m, b, c) == IF c THEN SetBit(m, b) ELSE ClearBit(m, b)

(* ------------------------------- state --------------------------------- *)
VARIABLES
    img,            \* the input: its size and the lines GetInputLine serves
    pc,             \* position in the function
    row,            \* row index of the running pass
    alloc,          \* engine-owned buffers currently allocated
    dangling,       \* engine pointers freed and not reset to NULL
    pixel_mask, conf_mask, clear_mask,
    whiteness,
    image_data_counter, clear_pixel_counter,
    clear_land_pixel_counter, clear_water_pixel_counter,
    clear_ptm, land_ptm, water_ptm,
    t_templ, t_temph, t_wtemp, temp_l,
    land_bit, water_bit,
    f_temp, f_wtemp, f_temp_max, f_temp_min, f_wtemp_max, f_wtemp_min,
    final_prob, wfinal_prob, clr_mask, wclr_mask,
    nir, swir1, nir_max, nir_min, swir1_max, swir1_min,
    nir_data, swir1_data, filled_nir_data, filled_swir1_data,
    nir_boundary, swir1_boundary,
    status, nir_task, swir1_task,
    reads           \* number of rows read from the input after the first pass

maskVars == <<pixel_mask, conf_mask, clear_mask, whiteness>>
statVars == <<image_data_counter, clear_pixel_counter,
              clear_land_pixel_counter, clear_water_pixel_counter,
              clear_ptm, land_ptm, water_ptm,
              t_templ, t_temph, t_wtemp, temp_l, land_bit, water_bit>>
sampleVars == <<f_temp, f_wtemp, f_temp_max, f_temp_min, f_wtemp_max,
                f_wtemp_min, nir, swir1, nir_max, nir_min, swir1_max,
                swir1_min, nir_data, swir1_data, nir_boundary,
                swir1_boundary>>
probVars == <<final_prob, wfinal_prob, clr_mask, wclr_mask>>
fillVars == <<filled_nir_data, filled_swir1_data, status, nir_task,
              swir1_task>>
vars == <<img, pc, row, alloc, dangling, maskVars, statVars, sampleVars,
          probVars,
          fillVars, reads>>

\* nrows = input->size.l, ncols = input->size.s
nrows == img.nrows
ncols == img.ncols
pixel_count == nrows * ncols
Pix == 0 .. (pixel_count - 1)

\* the inputs of the given size
Images(l, s) ==
    [nrows : {l}, ncols : {s}, data : [0 .. (l * s - 1) -> Pixels]]

\* state at entry for any pixel_mask the caller may pass (each byte empty,
\* FILL or SHADOW); conf_mask unset, locals as declared
InitEntry ==
    /\ \E l \in 1 .. MaxRows : \E s \in 1 .. MaxCols :
          /\ l * s <= MaxPix
          /\ img \in Images(l, s)
    /\ pc = "alloc_clear_mask"
    /\ row = 0
    /\ alloc = {}
    /\ dangling = {}
    /\ pixel_mask \in [Pix -> {{}, {CF_FILL_BIT}, {CF_SHADOW_BIT}}]
    /\ conf_mask = [p \in Pix |-> CONF_UNSET]
    /\ clear_mask = [p \in Pix |-> CF_CLEAR_NONE]
    /\ whiteness = Zero
    /\ image_data_counter = 0
    /\ clear_pixel_counter = 0
    /\ clear_land_pixel_counter = 0
    /\ clear_water_pixel_counter = 0
    /\ clear_ptm = Zero /\ land_ptm = Zero /\ water_ptm = Zero
    /\ t_templ = Zero /\ t_temph = Zero /\ t_wtemp = Zero /\ temp_l = Zero
    /\ land_bit = CF_CLEAR_BIT /\ water_bit = CF_CLEAR_BIT
    /\ f_temp = << >> /\ f_wtemp = << >>
    /\ f_temp_max = SHRT_MIN /\ f_temp_min = SHRT_MAX
    /\ f_wtemp_max = SHRT_MIN /\ f_wtemp_min = SHRT_MAX
    /\ final_prob = [p \in Pix |-> Zero]
    /\ wfinal_prob = [p \in Pix |-> Zero]
    /\ clr_mask = Zero /\ wclr_mask = Zero
    /\ nir = << >> /\ swir1 = << >>
    /\ nir_max = 0 /\ nir_min = 0 /\ swir1_max = 0 /\ swir1_min = 0
    /\ nir_data = [p \in Pix |-> 0]
    /\ swir1_data = [p \in Pix |-> 0]
    /\ filled_nir_data = [p \in Pix |-> 0]
    /\ filled_swir1_data = [p \in Pix |-> 0]
    /\ nir_boundary = Zero /\ swir1_boundary = Zero
    /\ status = "SUCCESS" /\ nir_task = "todo" /\ swir1_task = "todo"
    /\ reads = 0

\* state at entry when the caller passes a zeroed pixel_mask
Init ==
    /\ InitEntry
    /\ pixel_mask = [p \in Pix |-> {}]

\* RETURN_ERROR: log and return FAILURE; the macro releases nothing, so the
\* buffers in held stay allocated
ReturnErrorWith(held) ==
    /\ pc' = "failed"
    /\ alloc' = held
    /\ dangling' = dangling
    /\ UNCHANGED <<img, row, maskVars, statVars, sampleVars, probVars,
                   fillVars, reads>>

ReturnError == ReturnErrorWith(alloc)

\* variant: the pointers keep the released address
FreeNoReset(names) ==
    /\ alloc' \in IF names \cap dangling = {}
                  THEN {alloc \ names}
                  ELSE SUBSET (alloc \cup dangling)
    /\ dangling' = dangling \cup (names \cap alloc)

\* free (p); p = NULL; for every p in names.  free (NULL) does nothing; free
\* of a pointer that still holds a released address is undefined and may
\* leave the heap in any state.
Free(names) ==
    /\ alloc' \in IF names \cap dangling = {}
                  THEN {alloc \ names}
                  ELSE SUBSET (alloc \cup dangling)
    /\ dangling' = dangling \ names

\* a group of calloc/malloc calls followed by one NULL test: some proper
\* subset of the group was obtained before the test fails
AllocGroupFail(group) ==
    \E got \in SUBSET group :
        /\ got # group
        /\ ReturnErrorWith(alloc \cup got)

\* clear_mask = calloc (pixel_count, ...)
AllocClearMask ==
    /\ pc = "alloc_clear_mask"
    /\ pc' = "p1"
    /\ alloc' = alloc \cup {"clear_mask"}
    /\ dangling' = dangling \ {"clear_mask"}
    /\ row' = 0
    /\ UNCHANGED <<img, maskVars, statVars, sampleVars, probVars, fillVars,
                   reads>>

AllocClearMaskFail ==
    /\ pc = "alloc_clear_mask"
    /\ ReturnError

(* ------------------------------ row reads ------------------------------ *)
\* the pixel of row r, column c as delivered by the row reader
RowPx(r, c) == img.data[r * ncols + c]

\* if (buf[ib][col] == satu_value_ref[ib]) buf[ib][col] = satu_value_max[ib]
SubstBands(px, bands) ==
    [f \in DOMAIN px |->
        IF f \in bands /\ px[f] = satu_value_ref[f]
        THEN satu_value_max[f] ELSE px[f]]

SubstTherm(px) ==
    [px EXCEPT !.therm = IF @ = therm_satu_value_ref
                         THEN therm_satu_value_max ELSE @]

(* ----------------------------- first pass ------------------------------ *)
\* variant: the thermal band is compared for equality only
IsFillInputThermEq(px) ==
    \/ px.therm = FILL_PIXEL
    \/ px.blue = FILL_PIXEL
    \/ px.green = FILL_PIXEL
    \/ px.red = FILL_PIXEL
    \/ px.nir = FILL_PIXEL
    \/ px.swir1 = FILL_PIXEL
    \/ px.swir2 = FILL_PIXEL

IsFillInput(px) ==
    \/ px.therm <= FILL_PIXEL
    \/ px.blue = FILL_PIXEL
    \/ px.green = FILL_PIXEL
    \/ px.red = FILL_PIXEL
    \/ px.nir = FILL_PIXEL
    \/ px.swir1 = FILL_PIXEL
    \/ px.swir2 = FILL_PIXEL

Ndvi(px) == IF px.red + px.nir # 0
            THEN Rat(px.nir - px.red, px.nir + px.red) ELSE Rat(1, 100)
Ndsi(px) == IF px.green + px.swir1 # 0
            THEN Rat(px.green - px.swir1, px.green + px.swir1)
            ELSE Rat(1, 100)

\* visi_mean = (blue + green + red) / 3.0
VisiMean(px) == Rat(px.blue + px.green + px.red, 3)

\* (|blue - visi_mean| + |green - visi_mean| + |red - visi_mean|) / visi_mean
WhiteRatio(px) ==
    LET sum == px.blue + px.green + px.red
    IN  Rat(Abs(3 * px.blue - sum) + Abs(3 * px.green - sum)
            + Abs(3 * px.red - sum), sum)

VisSaturated(px) ==
    \/ px.blue >= satu_value_max["blue"] - 1
    \/ px.green >= satu_value_max["green"] - 1
    \/ px.red >= satu_value_max["red"] - 1

\* hot = blue - 0.5 * red - 800.0
Hot(px) == Rat(2 * px.blue - px.red - 1600, 2)

BasicCloudTest(px) ==
    /\ LtEps(Ndsi(px), Rat(4, 5))
    /\ LtEps(Ndvi(px), Rat(4, 5))
    /\ px.swir2 > 300
    /\ px.therm < 2700

SnowTest(px) ==
    /\ GtEps(Ndsi(px), Rat(3, 20))
    /\ px.therm < 1000
    /\ px.nir > 1100
    /\ px.green > 1000

WaterTest(px) ==
    \/ (LtEps(Ndvi(px), Rat(1, 100)) /\ px.nir < 1100)
    \/ (LtEps(Ndvi(px), Rat(1, 10)) /\ GtEps(Ndvi(px), Zero)
          /\ px.nir < 500)

\* the basic cloud, snow and water tests write their bits
P1Basic(px, pm0) ==
    PutBit(PutBit(PutBit(pm0, CF_CLOUD_BIT, BasicCloudTest(px)),
                  CF_SNOW_BIT, SnowTest(px)),
           CF_WATER_BIT, WaterTest(px))

\* variant: the flatness block never recomputes the whiteness variable
P1WhitenessStale(px, pm, w0) ==
    IF VisSaturated(px) THEN Zero ELSE w0

\* the whiteness variable after the flatness block and the saturation block:
\* recomputed only when the cloud bit is set, forced to 0 on saturation,
\* otherwise the value w0 left by an earlier pixel
P1Whiteness(px, pm, w0) ==
    IF VisSaturated(px) THEN Zero
    ELSE IF CF_CLOUD_BIT \in pm
         THEN (IF VisiMean(px).n # 0 THEN WhiteRatio(px) ELSE RInt(100))
         ELSE w0

\* the three chained tests; each keeps the cloud bit only if it is still set
P1WhiteTest(pm, w) ==
    PutBit(pm, CF_CLOUD_BIT, CF_CLOUD_BIT \in pm /\ LtEps(w, Rat(7, 10)))
P1HotTest(px, pm) ==
    PutBit(pm, CF_CLOUD_BIT,
           CF_CLOUD_BIT \in pm /\ (GtEps(Hot(px), Zero) \/ VisSaturated(px)))
P1RatioTest(px, pm) ==
    PutBit(pm, CF_CLOUD_BIT,
           CF_CLOUD_BIT \in pm /\ px.swir1 # 0
           /\ GtEps(Rat(px.nir, px.swir1), Rat(3, 4)))

\* variant: a clear pixel is always booked as land
P1ClearLandOnly(pm, w) ==
    [pm |-> pm,
     cm |-> IF CF_CLOUD_BIT \in pm THEN CF_CLEAR_NONE
            ELSE {CF_CLEAR_BIT, CF_CLEAR_LAND_BIT},
     w |-> w,
     data |-> 1,
     clear |-> IF CF_CLOUD_BIT \in pm THEN 0 ELSE 1,
     land |-> IF CF_CLOUD_BIT \in pm THEN 0 ELSE 1,
     water |-> 0]

\* the clear_mask byte and the counter increments of a non-fill pixel
P1Clear(pm, w) ==
    [pm |-> pm,
     cm |-> IF CF_CLOUD_BIT \in pm THEN CF_CLEAR_NONE
            ELSE IF CF_WATER_BIT \in pm
                 THEN {CF_CLEAR_BIT, CF_CLEAR_WATER_BIT}
                 ELSE {CF_CLEAR_BIT, CF_CLEAR_LAND_BIT},
     w |-> w,
     data |-> 1,
     clear |-> IF CF_CLOUD_BIT \in pm THEN 0 ELSE 1,
     land |-> IF CF_CLOUD_BIT \notin pm /\ CF_WATER_BIT \notin pm
              THEN 1 ELSE 0,
     water |-> IF CF_CLOUD_BIT \notin pm /\ CF_WATER_BIT \in pm
               THEN 1 ELSE 0]

P1Chain(px, pm, w) ==
    P1Clear(P1RatioTest(px, P1HotTest(px, P1WhiteTest(pm, w))), w)

\* the pixel after saturation substitution: fill, or the tests
P1Substituted(px, pm0, w0) ==
    IF IsFillInput(px)
    THEN [pm |-> {CF_FILL_BIT}, cm |-> {CF_CLEAR_FILL_BIT}, w |-> w0,
          data |-> 0, clear |-> 0, land |-> 0, water |-> 0]
    ELSE P1Chain(px, P1Basic(px, pm0), P1Whiteness(px, P1Basic(px, pm0), w0))

\* one iteration of the column loop of the first pass: px0 is the pixel as
\* read, pm0 the pixel_mask byte, w0 the value left in the whiteness variable
P1Pixel(px0, pm0, w0) ==
    P1Substituted(SubstTherm(SubstBands(px0, Bands6)), pm0, w0)

P1Merge(st, pixel_index, o) ==
    [pm |-> [st.pm EXCEPT ![pixel_index] = o.pm],
     cm |-> [st.cm EXCEPT ![pixel_index] = o.cm],
     w |-> o.w,
     data |-> st.data + o.data,
     clear |-> st.clear + o.clear,
     land |-> st.land + o.land,
     water |-> st.water + o.water]

\* the column loop of the first pass over row r, from column c on
RECURSIVE P1Cols(_, _, _)
P1Cols(r, c, st) ==
    IF c >= ncols THEN st
    ELSE P1Cols(r, c + 1,
                P1Merge(st, r * ncols + c,
                        P1Pixel(RowPx(r, c), st.pm[r * ncols + c], st.w)))

P1Store(st) ==
    /\ pixel_mask' = st.pm
    /\ clear_mask' = st.cm
    /\ whiteness' = st.w
    /\ image_data_counter' = st.data
    /\ clear_pixel_counter' = st.clear
    /\ clear_land_pixel_counter' = st.land
    /\ clear_water_pixel_counter' = st.water

\* one iteration of the row loop of the first pass
P1Row ==
    /\ pc = "p1"
    /\ row < nrows
    /\ P1Store(P1Cols(row, 0,
                      [pm |-> pixel_mask, cm |-> clear_mask,
                       w |-> whiteness,
                       data |-> image_data_counter,
                       clear |-> clear_pixel_counter,
                       land |-> clear_land_pixel_counter,
                       water |-> clear_water_pixel_counter]))
    /\ row' = row + 1
    /\ UNCHANGED <<img, pc, alloc, dangling, conf_mask, clear_ptm, land_ptm,
                   water_ptm, t_templ, t_temph, t_wtemp, temp_l, land_bit,
                   water_bit, sampleVars, probVars, fillVars, reads>>

\* GetInputLine or GetInputThermLine fails in the first pass
P1ReadError ==
    /\ pc = "p1"
    /\ row < nrows
    /\ ReturnError

\* percentages computed after the first pass (float division)
Percent(count, total) == RMul(RInt(100), Rat(count, total))

P1Stats ==
    /\ pc = "p1"
    /\ row >= nrows
    /\ clear_ptm' = Percent(clear_pixel_counter, image_data_counter)
    /\ land_ptm' = Percent(clear_land_pixel_counter, image_data_counter)
    /\ water_ptm' = Percent(clear_water_pixel_counter, image_data_counter)
    /\ pc' = "branch"
    /\ UNCHANGED <<img, row, alloc, dangling, maskVars, image_data_counter,
                   clear_pixel_counter, clear_land_pixel_counter,
                   clear_water_pixel_counter, t_templ, t_temph,
                   t_wtemp, temp_l, land_bit, water_bit, sampleVars,
                   probVars, fillVars, reads>>

\* variant: the test  clear_ptm + 0.1 <= MINSIGMA
ShortcutTakenBelowZero == LeEps(clear_ptm, Rat(-1, 10))

\* the test  clear_ptm - 0.1 <= MINSIGMA
ShortcutTaken == LeEps(clear_ptm, Rat(1, 10))

\* the all-cloud loop over every pixel_index
ShortcutMask(pm) == PutBit(pm, CF_SHADOW_BIT, ~(CF_CLOUD_BIT \in pm))

AllCloudShortcut ==
    /\ pc = "branch"
    /\ ShortcutTaken
    /\ t_templ' = RInt(-1)
    /\ t_temph' = RInt(-1)
    /\ pixel_mask' = [p \in Pix |-> ShortcutMask(pixel_mask[p])]
    /\ pc' = "exit"
    /\ UNCHANGED <<img, row, alloc, dangling, conf_mask, clear_mask, whiteness,
                   image_data_counter, clear_pixel_counter,
                   clear_land_pixel_counter, clear_water_pixel_counter,
                   clear_ptm, land_ptm, water_ptm, t_wtemp, temp_l,
                   land_bit, water_bit, sampleVars, probVars, fillVars,
                   reads>>

(* ----------------------------- percentiles ---------------------------- *)
RSort(s) == SortSeq(s, LAMBDA x, y : RLt(x, y))

\* interpolation between the sorted samples around position pos
Interpolate(srt, n, pos, lo) ==
    IF lo + 2 > n THEN srt[n]
    ELSE RAdd(srt[lo + 1],
              RMul(RSub(pos, RInt(lo)), RSub(srt[lo + 2], srt[lo + 1])))

PrctileAt(srt, n, pos) == Interpolate(srt, n, pos, pos.n \div pos.d)

\* inclusive linear-interpolation percentile of the n samples; 0 when n = 0
PrctileR(samples, n, pct) ==
    IF n = 0 THEN Zero
    ELSE PrctileAt(RSort(samples), n,
                   RMul(Rat(pct.n, pct.d * 100), RInt(n - 1)))

\* prctile (array, nums, min, max, prct, &result) over int16 samples
prctile(array, nums, min, max, prct) ==
    PrctileR([i \in 1 .. Len(array) |-> RInt(array[i])], nums, prct)

\* prctile2 (array, nums, min, max, prct, &result) over float samples
prctile2(array, nums, min, max, prct) == PrctileR(array, nums, prct)

l_pt == Rat(175, 1000)
h_pt == RSub(RInt(1), l_pt)
t_buffer == 4 * 100

(* ----------------------------- second pass ----------------------------- *)
\* calloc of f_temp and f_wtemp, then the choice of land_bit and water_bit
P2Alloc ==
    /\ pc = "branch"
    /\ ~ShortcutTaken
    /\ alloc' = alloc \cup {"f_temp", "f_wtemp"}
    /\ dangling' = dangling \ {"f_temp", "f_wtemp"}
    /\ land_bit' = IF GeEps(land_ptm, Rat(1, 10))
                   THEN CF_CLEAR_LAND_BIT ELSE CF_CLEAR_BIT
    /\ water_bit' = IF GeEps(water_ptm, Rat(1, 10))
                    THEN CF_CLEAR_WATER_BIT ELSE CF_CLEAR_BIT
    /\ f_temp' = << >> /\ f_wtemp' = << >>
    /\ f_temp_max' = SHRT_MIN /\ f_temp_min' = SHRT_MAX
    /\ f_wtemp_max' = SHRT_MIN /\ f_wtemp_min' = SHRT_MAX
    /\ row' = 0
    /\ pc' = "p2"
    /\ UNCHANGED <<img, maskVars, image_data_counter, clear_pixel_counter,
                   clear_land_pixel_counter, clear_water_pixel_counter,
                   clear_ptm, land_ptm, water_ptm, t_templ, t_temph,
                   t_wtemp, temp_l, probVars, nir, swir1, nir_max,
                   nir_min, swir1_max, swir1_min, nir_data, swir1_data,
                   nir_boundary, swir1_boundary, fillVars, reads>>

P2AllocFail ==
    /\ pc = "branch"
    /\ ~ShortcutTaken
    /\ AllocGroupFail({"f_temp", "f_wtemp"})

Max2(a, b) == IF a < b THEN b ELSE a
Min2(a, b) == IF a > b THEN b ELSE a

P2Land(st, cm, t) ==
    IF land_bit \in cm
    THEN [st EXCEPT !.ft = Append(@, t), !.ftmax = Max2(@, t),
                    !.ftmin = Min2(@, t)]
    ELSE st

P2Water(st, cm, t) ==
    IF water_bit \in cm
    THEN [st EXCEPT !.fw = Append(@, t), !.fwmax = Max2(@, t),
                    !.fwmin = Min2(@, t)]
    ELSE st

\* one pixel of the second pass: cm its clear_mask byte, t its thermal value
P2Pixel(st, cm, t) ==
    IF CF_CLEAR_FILL_BIT \in cm THEN st
    ELSE P2Water(P2Land(st, cm, t), cm, t)

\* the column loop of the second pass
RECURSIVE P2Cols(_, _, _)
P2Cols(r, c, st) ==
    IF c >= ncols THEN st
    ELSE P2Cols(r, c + 1,
                P2Pixel(st, clear_mask[r * ncols + c],
                        SubstTherm(RowPx(r, c)).therm))

P2Store(st) ==
    /\ f_temp' = st.ft
    /\ f_temp_max' = st.ftmax
    /\ f_temp_min' = st.ftmin
    /\ f_wtemp' = st.fw
    /\ f_wtemp_max' = st.fwmax
    /\ f_wtemp_min' = st.fwmin

P2Row ==
    /\ pc = "p2"
    /\ row < nrows
    /\ P2Store(P2Cols(row, 0,
                      [ft |-> f_temp, ftmax |-> f_temp_max,
                       ftmin |-> f_temp_min, fw |-> f_wtemp,
                       fwmax |-> f_wtemp_max, fwmin |-> f_wtemp_min]))
    /\ row' = row + 1
    /\ reads' = reads + 1
    /\ UNCHANGED <<img, pc, alloc, dangling, maskVars, statVars, probVars, nir,
                   swir1, nir_max, nir_min, swir1_max, swir1_min, nir_data,
                   swir1_data, nir_boundary, swir1_boundary, fillVars>>

P2ReadError ==
    /\ pc = "p2"
    /\ row < nrows
    /\ ReturnError

\* *t_templ -= (float) t_buffer;  *t_temph += (float) t_buffer
TemplBuffered(lo) == RSub(lo, RInt(t_buffer))
\* variant: the buffer is subtracted from the high percentile as well
TemphBufferedMinus(hi) == RSub(hi, RInt(t_buffer))
TemphBuffered(hi) == RAdd(hi, RInt(t_buffer))

\* the exported percentiles and temp_l from the three prctile results
P2Temps(lo, hi, wt) ==
    /\ t_templ' = TemplBuffered(lo)
    /\ t_temph' = TemphBuffered(hi)
    /\ t_wtemp' = wt
    /\ temp_l' = RSub(TemphBuffered(hi), TemplBuffered(lo))

\* the three prctile calls with the min / max handed to them
P2Prctiles(tmin, tmax, wmin, wmax) ==
    /\ f_temp_min' = tmin /\ f_temp_max' = tmax
    /\ f_wtemp_min' = wmin /\ f_wtemp_max' = wmax
    /\ P2Temps(prctile(f_temp, Len(f_temp), tmin, tmax,
                       RMul(RInt(100), l_pt)),
               prctile(f_temp, Len(f_temp), tmin, tmax,
                       RMul(RInt(100), h_pt)),
               prctile(f_wtemp, Len(f_wtemp), wmin, wmax,
                       RMul(RInt(100), h_pt)))

\* sentinel replacement, the three prctile calls, the buffer, and the
\* release of f_wtemp and f_temp
P2Percentiles ==
    /\ pc = "p2"
    /\ row >= nrows
    /\ P2Prctiles(IF f_temp_min = SHRT_MAX THEN 0 ELSE f_temp_min,
                  IF f_temp_max = SHRT_MIN THEN 0 ELSE f_temp_max,
                  IF f_wtemp_min = SHRT_MAX THEN 0 ELSE f_wtemp_min,
                  IF f_wtemp_max = SHRT_MIN THEN 0 ELSE f_wtemp_max)
    /\ Free({"f_wtemp", "f_temp"})
    /\ status' = "SUCCESS"
    /\ pc' = "p3alloc"
    /\ UNCHANGED <<img, row, maskVars, image_data_counter,
                   clear_pixel_counter, clear_land_pixel_counter,
                   clear_water_pixel_counter, clear_ptm, land_ptm,
                   water_ptm, land_bit, water_bit, f_temp, f_wtemp,
                   probVars, nir, swir1, nir_max, nir_min, swir1_max,
                   swir1_min, nir_data, swir1_data, nir_boundary,
                   swir1_boundary, filled_nir_data, filled_swir1_data,
                   nir_task, swir1_task, reads>>

\* one of the three prctile calls returns a status other than SUCCESS
P2PrctileError ==
    /\ pc = "p2"
    /\ row >= nrows
    /\ ReturnError

(* ------------------------------ third pass ----------------------------- *)
\* calloc of wfinal_prob and final_prob (zero filled)
P3Alloc ==
    /\ pc = "p3alloc"
    /\ alloc' = alloc \cup {"wfinal_prob", "final_prob"}
    /\ dangling' = dangling \ {"wfinal_prob", "final_prob"}
    /\ final_prob' = [p \in Pix |-> Zero]
    /\ wfinal_prob' = [p \in Pix |-> Zero]
    /\ row' = 0
    /\ pc' = "p3"
    /\ UNCHANGED <<img, maskVars, statVars, sampleVars, clr_mask, wclr_mask,
                   fillVars, reads>>

P3AllocFail ==
    /\ pc = "p3alloc"
    /\ AllocGroupFail({"wfinal_prob", "final_prob"})

\* x < MINSIGMA => x = 0.0
ClampLow(x) == IF LtEps(x, Zero) THEN Zero ELSE x

\* brightness_prob clamped to [0, 1]
Brightness(b) == ClampLow(IF GtEps(b, RInt(1)) THEN RInt(1) ELSE b)

\* cloud probability over water (t_bright = 1100)
WaterProb(px) ==
    RMul(RMul(RInt(100),
              ClampLow(RDiv(RSub(t_wtemp, RInt(px.therm)), RInt(400)))),
         Brightness(Rat(px.swir1, 1100)))

\* whiteness as the third pass computes it
P3Whiteness(px) ==
    IF VisSaturated(px) THEN Zero
    ELSE IF VisiMean(px).n # 0 THEN WhiteRatio(px) ELSE Zero

\* if ((a - b) > MINSIGMA) max_value = a; else max_value = b
MaxEps(a, b) == IF GtEps(a, b) THEN a ELSE b

\* vari_prob = 1 - max (ndsi, ndvi, whiteness)
VariProb(ndsi, ndvi, w) == RSub(RInt(1), MaxEps(w, MaxEps(ndsi, ndvi)))

\* cloud probability over land
LandProb(px) ==
    RMul(RInt(100),
         RMul(ClampLow(RDiv(RSub(t_temph, RInt(px.therm)), temp_l)),
              VariProb(ClampLow(Ndsi(px)), ClampLow(Ndvi(px)),
                       P3Whiteness(px))))

\* one non-skipped pixel of the third pass
P3Pixel(st, pixel_index, px) ==
    IF CF_WATER_BIT \in pixel_mask[pixel_index]
    THEN [fp |-> [st.fp EXCEPT ![pixel_index] = Zero],
          wfp |-> [st.wfp EXCEPT ![pixel_index] = WaterProb(px)],
          w |-> st.w]
    ELSE [fp |-> [st.fp EXCEPT ![pixel_index] = LandProb(px)],
          wfp |-> [st.wfp EXCEPT ![pixel_index] = Zero],
          w |-> P3Whiteness(px)]

\* the column loop of the third pass
RECURSIVE P3Cols(_, _, _)
P3Cols(r, c, st) ==
    IF c >= ncols THEN st
    ELSE IF CF_FILL_BIT \in pixel_mask[r * ncols + c]
         THEN P3Cols(r, c + 1, st)
         ELSE P3Cols(r, c + 1,
                     P3Pixel(st, r * ncols + c,
                             SubstTherm(SubstBands(RowPx(r, c), Bands5))))

P3Store(st) ==
    /\ final_prob' = st.fp
    /\ wfinal_prob' = st.wfp
    /\ whiteness' = st.w

P3Row ==
    /\ pc = "p3"
    /\ row < nrows
    /\ P3Store(P3Cols(row, 0, [fp |-> final_prob, wfp |-> wfinal_prob,
                               w |-> whiteness]))
    /\ row' = row + 1
    /\ reads' = reads + 1
    /\ UNCHANGED <<img, pc, alloc, dangling, pixel_mask, conf_mask, clear_mask,
                   statVars, sampleVars, clr_mask, wclr_mask,
                   fillVars>>

P3ReadError ==
    /\ pc = "p3"
    /\ row < nrows
    /\ ReturnError

(* ------------------------------ fourth pass ---------------------------- *)
cloud_prob_threshold == Rat(45, 2)

\* values of surface at the pixels whose clear_mask has bit, in index order
RECURSIVE Gather(_, _, _)
Gather(surface, bit, p) ==
    IF p >= pixel_count THEN << >>
    ELSE IF CF_CLEAR_FILL_BIT \notin clear_mask[p] /\ bit \in clear_mask[p]
         THEN <<surface[p]>> \o Gather(surface, bit, p + 1)
         ELSE Gather(surface, bit, p + 1)

\* prctile2 of the gathered sample at 100 * h_pt, plus the threshold
Threshold(sample) ==
    RAdd(prctile2(sample, Len(sample), Zero, Zero, RMul(RInt(100), h_pt)),
         cloud_prob_threshold)

\* malloc prob, gather, prctile2, add the threshold, free prob
P4LandThreshold ==
    /\ pc = "p3"
    /\ row >= nrows
    /\ clr_mask' = Threshold(Gather(final_prob, land_bit, 0))
    /\ status' = "SUCCESS"
    /\ pc' = "p4water"
    /\ UNCHANGED <<img, row, alloc, dangling, maskVars, statVars, sampleVars,
                   final_prob, wfinal_prob, wclr_mask, filled_nir_data,
                   filled_swir1_data, nir_task, swir1_task, reads>>

P4LandAllocFail ==
    /\ pc = "p3"
    /\ row >= nrows
    /\ AllocGroupFail({"prob"})

\* prctile2 fails while prob is allocated
P4LandPrctileError ==
    /\ pc = "p3"
    /\ row >= nrows
    /\ ReturnErrorWith(alloc \cup {"prob"})

\* malloc wprob, gather, prctile2, add the threshold, free wprob
P4WaterThreshold ==
    /\ pc = "p4water"
    /\ wclr_mask' = Threshold(Gather(wfinal_prob, water_bit, 0))
    /\ status' = "SUCCESS"
    /\ row' = 0
    /\ pc' = "p4"
    /\ UNCHANGED <<img, alloc, dangling, maskVars, statVars, sampleVars,
                   final_prob, wfinal_prob, clr_mask, filled_nir_data,
                   filled_swir1_data, nir_task, swir1_task, reads>>

P4WaterAllocFail ==
    /\ pc = "p4water"
    /\ AllocGroupFail({"wprob"})

P4WaterPrctileError ==
    /\ pc = "p4water"
    /\ ReturnErrorWith(alloc \cup {"wprob"})

\* the confidence decision of the fourth pass for one non-fill pixel
P4High(pm, fp, wfp, therm) ==
    \/ (CF_CLOUD_BIT \in pm /\ RGt(fp, clr_mask) /\ CF_WATER_BIT \notin pm)
    \/ (CF_CLOUD_BIT \in pm /\ RGt(wfp, wclr_mask) /\ CF_WATER_BIT \in pm)
    \/ RLt(RInt(therm), RSub(RAdd(t_templ, RInt(t_buffer)), RInt(3500)))

P4Med(pm, fp, wfp) ==
    \/ (CF_CLOUD_BIT \in pm /\ RGt(fp, RSub(clr_mask, RInt(10)))
         /\ CF_WATER_BIT \notin pm)
    \/ (CF_CLOUD_BIT \in pm /\ RGt(wfp, RSub(wclr_mask, RInt(10)))
         /\ CF_WATER_BIT \in pm)

\* variant: the medium branch leaves the cloud bit as it is
P4PixelMedKeepsCloud(pm, fp, wfp, therm) ==
    IF P4High(pm, fp, wfp, therm)
    THEN [conf |-> CLOUD_CONFIDENCE_HIGH, pm |-> SetBit(pm, CF_CLOUD_BIT)]
    ELSE IF P4Med(pm, fp, wfp)
    THEN [conf |-> CLOUD_CONFIDENCE_MED, pm |-> pm]
    ELSE [conf |-> CLOUD_CONFIDENCE_LOW, pm |-> ClearBit(pm, CF_CLOUD_BIT)]

\* variant: the low branch clears the cloud bit but writes no confidence
P4PixelLowUnwritten(pm, fp, wfp, therm) ==
    IF P4High(pm, fp, wfp, therm)
    THEN [conf |-> CLOUD_CONFIDENCE_HIGH, pm |-> SetBit(pm, CF_CLOUD_BIT)]
    ELSE IF P4Med(pm, fp, wfp)
    THEN [conf |-> CLOUD_CONFIDENCE_MED, pm |-> ClearBit(pm, CF_CLOUD_BIT)]
    ELSE [conf |-> CONF_UNSET, pm |-> ClearBit(pm, CF_CLOUD_BIT)]

\* variant: the extreme-cold clause counts only for a pixel with the cloud bit
P4PixelColdNeedsCloud(pm, fp, wfp, therm) ==
    IF P4High(pm, fp, wfp, therm) /\ CF_CLOUD_BIT \in pm
    THEN [conf |-> CLOUD_CONFIDENCE_HIGH, pm |-> SetBit(pm, CF_CLOUD_BIT)]
    ELSE IF P4Med(pm, fp, wfp)
    THEN [conf |-> CLOUD_CONFIDENCE_MED, pm |-> ClearBit(pm, CF_CLOUD_BIT)]
    ELSE [conf |-> CLOUD_CONFIDENCE_LOW, pm |-> ClearBit(pm, CF_CLOUD_BIT)]

P4Pixel(pm, fp, wfp, therm) ==
    IF P4High(pm, fp, wfp, therm)
    THEN [conf |-> CLOUD_CONFIDENCE_HIGH, pm |-> SetBit(pm, CF_CLOUD_BIT)]
    ELSE IF P4Med(pm, fp, wfp)
    THEN [conf |-> CLOUD_CONFIDENCE_MED, pm |-> ClearBit(pm, CF_CLOUD_BIT)]
    ELSE [conf |-> CLOUD_CONFIDENCE_LOW, pm |-> ClearBit(pm, CF_CLOUD_BIT)]

P4Merge(st, pixel_index, o) ==
    [pm |-> [st.pm EXCEPT ![pixel_index] = o.pm],
     conf |-> [st.conf EXCEPT ![pixel_index] = o.conf]]

RECURSIVE P4Cols(_, _, _)
P4Cols(r, c, st) ==
    IF c >= ncols THEN st
    ELSE IF CF_FILL_BIT \in st.pm[r * ncols + c]
         THEN P4Cols(r, c + 1, st)
         ELSE P4Cols(r, c + 1,
                     P4Merge(st, r * ncols + c,
                             P4Pixel(st.pm[r * ncols + c],
                                     final_prob[r * ncols + c],
                                     wfinal_prob[r * ncols + c],
                                     SubstTherm(RowPx(r, c)).therm)))

MaskStore(st) ==
    /\ pixel_mask' = st.pm
    /\ conf_mask' = st.conf

P4Row ==
    /\ pc = "p4"
    /\ row < nrows
    /\ MaskStore(P4Cols(row, 0, [pm |-> pixel_mask, conf |-> conf_mask]))
    /\ row' = row + 1
    /\ reads' = reads + 1
    /\ UNCHANGED <<img, pc, alloc, dangling, clear_mask, whiteness, statVars,
                   sampleVars, probVars, fillVars>>

P4ReadError ==
    /\ pc = "p4"
    /\ row < nrows
    /\ ReturnError

\* free (wfinal_prob); free (final_prob)
P4Free ==
    /\ pc = "p4"
    /\ row >= nrows
    /\ Free({"wfinal_prob", "final_prob"})
    /\ pc' = "p5alloc"
    /\ UNCHANGED <<img, row, maskVars, statVars, sampleVars, probVars,
                   fillVars, reads>>

(* ------------------------------ fifth pass ----------------------------- *)
\* calloc of the nir and swir1 sample arrays
P5AllocSamples ==
    /\ pc = "p5alloc"
    /\ alloc' = alloc \cup {"nir", "swir1"}
    /\ dangling' = dangling \ {"nir", "swir1"}
    /\ pc' = "p5alloc_data"
    /\ UNCHANGED <<img, row, maskVars, statVars, sampleVars, probVars,
                   fillVars, reads>>

P5AllocSamplesFail ==
    /\ pc = "p5alloc"
    /\ AllocGroupFail({"nir", "swir1"})

\* calloc of the four full rasters, and the sample trackers
P5AllocData ==
    /\ pc = "p5alloc_data"
    /\ alloc' = alloc \cup {"nir_data", "swir1_data", "filled_nir_data",
                             "filled_swir1_data"}
    /\ dangling' = dangling \ {"nir_data", "swir1_data", "filled_nir_data",
                               "filled_swir1_data"}
    /\ nir_data' = [p \in Pix |-> 0]
    /\ swir1_data' = [p \in Pix |-> 0]
    /\ filled_nir_data' = [p \in Pix |-> 0]
    /\ filled_swir1_data' = [p \in Pix |-> 0]
    /\ nir' = << >> /\ swir1' = << >>
    /\ nir_max' = 0 /\ nir_min' = 0 /\ swir1_max' = 0 /\ swir1_min' = 0
    /\ row' = 0
    /\ pc' = "p5"
    /\ UNCHANGED <<img, maskVars, statVars, f_temp, f_wtemp, f_temp_max,
                   f_temp_min, f_wtemp_max, f_wtemp_min, probVars,
                   nir_boundary, swir1_boundary, status, nir_task,
                   swir1_task, reads>>

P5AllocDataFail ==
    /\ pc = "p5alloc_data"
    /\ AllocGroupFail({"nir_data", "swir1_data", "filled_nir_data",
                       "filled_swir1_data"})

\* the row buffer entry of column c after the column loop of the fifth pass:
\* saturation is substituted only where the pixel is not CLEAR_FILL
P5Buf(r, c) ==
    IF CF_CLEAR_FILL_BIT \in clear_mask[r * ncols + c]
    THEN RowPx(r, c)
    ELSE SubstBands(RowPx(r, c), {"nir", "swir1"})

\* the sample arrays and their trackers take the pixel if it is clear land
P5Sample(st, cm, px) ==
    IF CF_CLEAR_FILL_BIT \notin cm /\ land_bit \in cm
    THEN [st EXCEPT !.nir = Append(@, px.nir),
                    !.nmax = Max2(@, px.nir),
                    !.nmin = Min2(@, px.nir),
                    !.swir1 = Append(@, px.swir1),
                    !.smax = Max2(@, px.swir1),
                    !.smin = Min2(@, px.swir1)]
    ELSE st

\* memcpy of the row buffers into nir_data and swir1_data
P5Copy(st, pixel_index, px) ==
    [st EXCEPT !.nd[pixel_index] = px.nir, !.sd[pixel_index] = px.swir1]

P5Pixel(st, pixel_index, px) ==
    P5Copy(P5Sample(st, clear_mask[pixel_index], px), pixel_index, px)

RECURSIVE P5Cols(_, _, _)
P5Cols(r, c, st) ==
    IF c >= ncols THEN st
    ELSE P5Cols(r, c + 1, P5Pixel(st, r * ncols + c, P5Buf(r, c)))

P5Store(st) ==
    /\ nir' = st.nir /\ nir_max' = st.nmax /\ nir_min' = st.nmin
    /\ swir1' = st.swir1 /\ swir1_max' = st.smax /\ swir1_min' = st.smin
    /\ nir_data' = st.nd
    /\ swir1_data' = st.sd

P5Row ==
    /\ pc = "p5"
    /\ row < nrows
    /\ P5Store(P5Cols(row, 0,
                      [nir |-> nir, nmax |-> nir_max, nmin |-> nir_min,
                       swir1 |-> swir1, smax |-> swir1_max,
                       smin |-> swir1_min, nd |-> nir_data,
                       sd |-> swir1_data]))
    /\ row' = row + 1
    /\ reads' = reads + 1
    /\ UNCHANGED <<img, pc, alloc, dangling, maskVars, statVars, f_temp,
                   f_wtemp, f_temp_max, f_temp_min, f_wtemp_max, f_wtemp_min,
                   probVars, nir_boundary, swir1_boundary, fillVars>>

P5ReadError ==
    /\ pc = "p5"
    /\ row < nrows
    /\ ReturnError

\* the two prctile calls for the background values, then free nir, swir1
P5Percentiles ==
    /\ pc = "p5"
    /\ row >= nrows
    /\ nir_boundary' = prctile(nir, Len(nir), nir_min, nir_max,
                               RMul(RInt(100), l_pt))
    /\ swir1_boundary' = prctile(swir1, Len(swir1), swir1_min, swir1_max,
                                 RMul(RInt(100), l_pt))
    /\ status' = "SUCCESS"
    /\ Free({"nir", "swir1"})
    /\ nir_task' = "todo" /\ swir1_task' = "todo"
    /\ pc' = "fill"
    /\ UNCHANGED <<img, row, maskVars, statVars, f_temp, f_wtemp, f_temp_max,
                   f_temp_min, f_wtemp_max, f_wtemp_min, probVars, nir,
                   swir1, nir_max, nir_min, swir1_max, swir1_min,
                   nir_data, swir1_data, filled_nir_data,
                   filled_swir1_data, reads>>

P5PrctileError ==
    /\ pc = "p5"
    /\ row >= nrows
    /\ ReturnError

(* ------------------------------ flood fill ----------------------------- *)
Trunc(x) == IF x.n >= 0 THEN x.n \div x.d ELSE -((-x.n) \div x.d)

OnBorder(p) ==
    LET r == p \div ncols
        c == p % ncols
    IN  r = 0 \/ r = nrows - 1 \/ c = 0 \/ c = ncols - 1

Neighbours(p) ==
    {q \in Pix : q # p /\ Abs((q \div ncols) - (p \div ncols)) <= 1
                       /\ Abs((q % ncols) - (p % ncols)) <= 1}

SetMin(S) == CHOOSE x \in S : \A y \in S : x <= y

FillStep(src, f) ==
    [p \in Pix |->
        IF OnBorder(p) THEN f[p]
        ELSE Max2(src[p], SetMin({f[p]} \cup {f[q] : q \in Neighbours(p)}))]

RECURSIVE FillFix(_, _)
RECURSIVE FillNext(_, _, _)
FillNext(src, f, g) == IF g = f THEN f ELSE FillFix(src, g)
FillFix(src, f) == FillNext(src, f, FillStep(src, f))

\* fill_local_minima_in_image: every local minimum raised to its rim, the
\* border held at the boundary value
fill_local_minima_in_image(src, boundary) ==
    FillFix(src, [p \in Pix |-> IF OnBorder(p)
                                THEN Max2(src[p], Trunc(boundary))
                                ELSE SHRT_MAX])

\* first section of the parallel region
FillNir ==
    /\ pc = "fill"
    /\ nir_task = "todo"
    /\ filled_nir_data' = fill_local_minima_in_image(nir_data, nir_boundary)
    /\ nir_task' = "done"
    /\ UNCHANGED <<img, pc, row, alloc, dangling, maskVars, statVars,
                   sampleVars, probVars, filled_swir1_data, status, swir1_task,
                   reads>>

FillNirError ==
    /\ pc = "fill"
    /\ nir_task = "todo"
    /\ status' = "ERROR"
    /\ nir_task' = "failed"
    /\ UNCHANGED <<img, pc, row, alloc, dangling, maskVars, statVars,
                   sampleVars, probVars, filled_nir_data, filled_swir1_data,
                   swir1_task, reads>>

\* second section of the parallel region
FillSwir1 ==
    /\ pc = "fill"
    /\ swir1_task = "todo"
    /\ filled_swir1_data' =
           fill_local_minima_in_image(swir1_data, swir1_boundary)
    /\ swir1_task' = "done"
    /\ UNCHANGED <<img, pc, row, alloc, dangling, maskVars, statVars,
                   sampleVars, probVars, filled_nir_data, status, nir_task,
                   reads>>

\* variant: the failure of the second section is not recorded in status
FillSwir1ErrorLost ==
    /\ pc = "fill"
    /\ swir1_task = "todo"
    /\ swir1_task' = "failed"
    /\ UNCHANGED <<img, pc, row, alloc, dangling, maskVars, statVars,
                   sampleVars, probVars, filled_nir_data, filled_swir1_data,
                   status, nir_task, reads>>

FillSwir1Error ==
    /\ pc = "fill"
    /\ swir1_task = "todo"
    /\ status' = "ERROR"
    /\ swir1_task' = "failed"
    /\ UNCHANGED <<img, pc, row, alloc, dangling, maskVars, statVars,
                   sampleVars, probVars, filled_nir_data, filled_swir1_data,
                   nir_task, reads>>

\* end of the parallel region: free nir_data and swir1_data, go on
FillJoin ==
    /\ pc = "fill"
    /\ nir_task # "todo" /\ swir1_task # "todo"
    /\ status # "ERROR"
    /\ Free({"nir_data", "swir1_data"})
    /\ row' = 0
    /\ pc' = "p6"
    /\ UNCHANGED <<img, maskVars, statVars, sampleVars, probVars, fillVars,
                   reads>>

\* status == ERROR: free the filled rasters too and return FAILURE
FillJoinError ==
    /\ pc = "fill"
    /\ nir_task # "todo" /\ swir1_task # "todo"
    /\ status = "ERROR"
    /\ ReturnErrorWith(alloc \ {"nir_data", "swir1_data",
                                 "filled_nir_data", "filled_swir1_data"})

(* ------------------------------ sixth pass ----------------------------- *)
\* conversion of an int result to int16
Wrap16(x) == ((x + 32768) % 65536) - 32768

\* shadow_prob: the smaller of the two int16 residuals
ShadowProb(new_nir, new_swir1) ==
    IF new_nir < new_swir1 THEN new_nir ELSE new_swir1

\* variant: the water bit is cleared without looking at the cloud bit
P6RefineAlways(pm) == ClearBit(pm, CF_WATER_BIT)

\* refine Water mask (no confusion water/cloud)
P6Refine(pm) ==
    IF CF_WATER_BIT \in pm /\ CF_CLOUD_BIT \in pm
    THEN ClearBit(pm, CF_WATER_BIT) ELSE pm

\* variant: no water refinement
P6PixelNoRefine(px, pm, fnir, fswir1) ==
    PutBit(pm, CF_SHADOW_BIT,
           ShadowProb(Wrap16(fnir - px.nir), Wrap16(fswir1 - px.swir1))
             > 200)

P6Pixel(px, pm, fnir, fswir1) ==
    P6Refine(PutBit(pm, CF_SHADOW_BIT,
                    ShadowProb(Wrap16(fnir - px.nir),
                               Wrap16(fswir1 - px.swir1)) > 200))

RECURSIVE P6Cols(_, _, _)
P6Cols(r, c, st) ==
    IF c >= ncols THEN st
    ELSE IF CF_FILL_BIT \in st.pm[r * ncols + c]
         THEN P6Cols(r, c + 1,
                [st EXCEPT !.conf[r * ncols + c] = CF_FILL_PIXEL])
         ELSE P6Cols(r, c + 1,
                [st EXCEPT !.pm[r * ncols + c] =
                    P6Pixel(SubstBands(RowPx(r, c), {"nir", "swir1"}), @,
                            filled_nir_data[r * ncols + c],
                            filled_swir1_data[r * ncols + c])])

P6Row ==
    /\ pc = "p6"
    /\ row < nrows
    /\ MaskStore(P6Cols(row, 0, [pm |-> pixel_mask, conf |-> conf_mask]))
    /\ row' = row + 1
    /\ reads' = reads + 1
    /\ UNCHANGED <<img, pc, alloc, dangling, clear_mask, whiteness, statVars,
                   sampleVars, probVars, fillVars>>

P6ReadError ==
    /\ pc = "p6"
    /\ row < nrows
    /\ ReturnError

\* the frees after the sixth pass
P6Free ==
    /\ pc = "p6"
    /\ row >= nrows
    /\ Free({"nir_data", "swir1_data", "filled_nir_data",
             "filled_swir1_data"})
    /\ pc' = "exit"
    /\ UNCHANGED <<img, row, maskVars, statVars, sampleVars, probVars,
                   fillVars, reads>>

\* free (clear_mask); return SUCCESS
ReturnSuccess ==
    /\ pc = "exit"
    /\ Free({"clear_mask"})
    /\ pc' = "done"
    /\ UNCHANGED <<img, row, maskVars, statVars, sampleVars, probVars,
                   fillVars, reads>>

\* the engine buffers that the step taken next from this position reads or
\* writes
Uses ==
    CASE pc = "p1" /\ row < nrows -> {"clear_mask"}
      [] pc = "p2" /\ row < nrows -> {"clear_mask", "f_temp", "f_wtemp"}
      [] pc = "p2" /\ row >= nrows -> {"f_temp", "f_wtemp"}
      [] pc = "p3" /\ row < nrows -> {"final_prob", "wfinal_prob"}
      [] pc = "p3" /\ row >= nrows -> {"clear_mask", "final_prob"}
      [] pc = "p4water" -> {"clear_mask", "wfinal_prob"}
      [] pc = "p4" /\ row < nrows -> {"final_prob", "wfinal_prob"}
      [] pc = "p5" /\ row < nrows ->
            {"clear_mask", "nir", "swir1", "nir_data", "swir1_data"}
      [] pc = "p5" /\ row >= nrows -> {"nir", "swir1"}
      [] pc = "fill" ->
            (IF nir_task = "todo"
             THEN {"nir_data", "filled_nir_data"} ELSE {})
            \cup (IF swir1_task = "todo"
                  THEN {"swir1_data", "filled_swir1_data"} ELSE {})
      [] pc = "p6" /\ row < nrows ->
            {"filled_nir_data", "filled_swir1_data"}
      [] OTHER -> {}

Next ==
    \/ AllocClearMask
    \/ AllocClearMaskFail
    \/ P1Row
    \/ P1ReadError
    \/ P1Stats
    \/ AllCloudShortcut
    \/ P2Alloc
    \/ P2AllocFail
    \/ P2Row
    \/ P2ReadError
    \/ P2Percentiles
    \/ P2PrctileError
    \/ P3Alloc
    \/ P3AllocFail
    \/ P3Row
    \/ P3ReadError
    \/ P4LandThreshold
    \/ P4LandAllocFail
    \/ P4LandPrctileError
    \/ P4WaterThreshold
    \/ P4WaterAllocFail
    \/ P4WaterPrctileError
    \/ P4Row
    \/ P4ReadError
    \/ P4Free
    \/ P5AllocSamples
    \/ P5AllocSamplesFail
    \/ P5AllocData
    \/ P5AllocDataFail
    \/ P5Row
    \/ P5ReadError
    \/ P5Percentiles
    \/ P5PrctileError
    \/ FillNir
    \/ FillNirError
    \/ FillSwir1
    \/ FillSwir1Error
    \/ FillJoin
    \/ FillJoinError
    \/ P6Row
    \/ P6ReadError
    \/ P6Free
    \/ ReturnSuccess

Spec == Init /\ [][Next]_vars

\* the function called with any entry pixel_mask
SpecEntry == InitEntry /\ [][Next]_vars

(* ============================ properties =============================== *)
\* the pixel of index p after the saturation substitution of the first pass
InPx(p) == SubstTherm(SubstBands(img.data[p], Bands6))
HasFill(p) == CF_FILL_BIT \in pixel_mask[p]

AfterP1 == pc \in {"branch", "p2", "p3alloc", "p3", "p4water", "p4",
                   "p5alloc", "p5alloc_data", "p5", "fill", "p6", "exit",
                   "done"}
\* the function returned SUCCESS through the six passes / the shortcut
FullReturn == pc = "done" /\ ~ShortcutTaken
ShortcutReturn == pc = "done" /\ ShortcutTaken
AfterP4 == \/ pc = "p4" /\ row >= nrows
           \/ pc \in {"p5alloc", "p5alloc_data", "p5", "fill", "p6"}
           \/ pc \in {"exit", "done"} /\ ~ShortcutTaken
AfterP6 == \/ pc = "p6" /\ row >= nrows
           \/ pc \in {"exit", "done"} /\ ~ShortcutTaken

\* C1: on every successful return a pixel with the FILL bit has no other
\* pixel_mask bit, and when the sixth pass has run its conf_mask is
\* CF_FILL_PIXEL.
C1_FillExclusive ==
    pc = "done" =>
        \A p \in Pix :
            HasFill(p) =>
                /\ pixel_mask[p] = {CF_FILL_BIT}
                /\ (~ShortcutTaken => conf_mask[p] = CF_FILL_PIXEL)

\* C2: on every failure return no engine-owned buffer remains allocated.
C2_NoLeakOnFailure == pc = "failed" => alloc = {}

\* C3: once the fourth pass is complete, every pixel without the FILL bit
\* has confidence HIGH with the CLOUD bit set, or confidence MED or LOW
\* with the CLOUD bit cleared; this stays so up to the successful return.
C3_ConfidenceMatchesCloud ==
    AfterP4 =>
        \A p \in Pix :
            ~HasFill(p) =>
                /\ conf_mask[p] = CLOUD_CONFIDENCE_HIGH
                       => CF_CLOUD_BIT \in pixel_mask[p]
                /\ conf_mask[p] \in {CLOUD_CONFIDENCE_MED,
                                      CLOUD_CONFIDENCE_LOW}
                       => CF_CLOUD_BIT \notin pixel_mask[p]

C3_Witness ==
    /\ pc = "done"
    /\ \E p \in Pix : /\ conf_mask[p] = CLOUD_CONFIDENCE_MED
                       /\ CF_CLOUD_BIT \notin pixel_mask[p]
    /\ \E p \in Pix : conf_mask[p] = CLOUD_CONFIDENCE_LOW

C5_ShortcutShadow ==
    ShortcutReturn =>
        /\ t_templ = RInt(-1) /\ t_temph = RInt(-1)
        /\ \A p \in Pix :
              IF HasFill(p) THEN CF_SHADOW_BIT \notin pixel_mask[p]
              ELSE (CF_SHADOW_BIT \in pixel_mask[p])
                      <=> (CF_CLOUD_BIT \notin pixel_mask[p])

\* C6: a successful return through the shortcut has read no row after the
\* first pass and written no conf_mask entry; every other successful return
\* has written every entry: CF_FILL_PIXEL exactly on the FILL pixels and
\* LOW, MED or HIGH on the others.
C6_ConfWritten ==
    pc = "done" =>
        IF ShortcutTaken
        THEN /\ reads = 0
             /\ \A p \in Pix : conf_mask[p] = CONF_UNSET
        ELSE \A p \in Pix :
               IF HasFill(p) THEN conf_mask[p] = CF_FILL_PIXEL
               ELSE conf_mask[p] \in {CLOUD_CONFIDENCE_LOW,
                                      CLOUD_CONFIDENCE_MED,
                                      CLOUD_CONFIDENCE_HIGH}

C6_Witness ==
    /\ FullReturn
    /\ reads > 0
    /\ \E p \in Pix : conf_mask[p] = CF_FILL_PIXEL
    /\ \E p \in Pix : conf_mask[p] = CLOUD_CONFIDENCE_LOW

\* C7: for an image whose pixels are all fill the run returns
\* clear_ptm = 0, t_templ = t_temph = -1, every pixel_mask exactly FILL and
\* every conf_mask CF_FILL_PIXEL.
C7_AllFillImage ==
    (pc = "done" /\ image_data_counter = 0) =>
        /\ clear_ptm = Zero
        /\ t_templ = RInt(-1) /\ t_temph = RInt(-1)
        /\ \A p \in Pix : /\ pixel_mask[p] = {CF_FILL_BIT}
                           /\ conf_mask[p] = CF_FILL_PIXEL

InPercentRange(x) == RGe(x, Zero) /\ RLe(x, RInt(100))

C9_PercentRange ==
    AfterP1 =>
        /\ clear_land_pixel_counter + clear_water_pixel_counter
              = clear_pixel_counter
        /\ clear_pixel_counter <= image_data_counter
        /\ InPercentRange(clear_ptm)
        /\ InPercentRange(land_ptm)
        /\ InPercentRange(water_ptm)
        /\ RLe(RAdd(land_ptm, water_ptm), clear_ptm)

\* C10: on every successful return t_temph >= t_templ, both being -1 after
\* the shortcut; while the third pass runs, temp_l = t_temph - t_templ is
\* at least 800.
C10_TempOrder ==
    /\ pc = "done" => RGe(t_temph, t_templ)
    /\ ShortcutReturn => (t_templ = RInt(-1) /\ t_temph = RInt(-1))
    /\ pc \in {"p3alloc", "p3"} =>
           /\ temp_l = RSub(t_temph, t_templ)
           /\ RGe(temp_l, RInt(800))

C10_Witness ==
    /\ FullReturn
    /\ RGt(temp_l, RInt(800))
    /\ RGt(t_temph, t_templ)

\* the thermal value of pixel p is below t_templ + 400 - 3500
ExtremeCold(p) ==
    RLt(RInt(InPx(p).therm), RSub(RAdd(t_templ, RInt(400)), RInt(3500)))

\* the probability of pixel p that the fourth pass compares (land or water
\* surface, by the WATER bit) exceeds its threshold lowered by margin
OverThreshold(p, margin) ==
    IF CF_WATER_BIT \in pixel_mask[p]
    THEN RGt(wfinal_prob[p], RSub(wclr_mask, RInt(margin)))
    ELSE RGt(final_prob[p], RSub(clr_mask, RInt(margin)))

\* the confidence the first matching case gives pixel p
FirstMatch(p) ==
    IF (CF_CLOUD_BIT \in pixel_mask[p] /\ OverThreshold(p, 0))
         \/ ExtremeCold(p)
    THEN CLOUD_CONFIDENCE_HIGH
    ELSE IF CF_CLOUD_BIT \in pixel_mask[p] /\ OverThreshold(p, 10)
         THEN CLOUD_CONFIDENCE_MED
         ELSE CLOUD_CONFIDENCE_LOW

\* C11: a row step of the fourth pass gives every non-fill pixel of its row
\* the confidence of the first matching case (HIGH, then MED, then LOW) and
\* sets the CLOUD bit exactly for HIGH, changing no other bit; an
\* extreme-cold pixel gets HIGH whatever its CLOUD bit was, and a pixel
\* without the CLOUD bit that is not extreme-cold gets LOW.
C11_FirstMatch ==
    [][(pc = "p4" /\ pc' = "p4" /\ row' = row + 1) =>
         \A c \in 0 .. (ncols - 1) :
            LET p == row * ncols + c
            IN  ~HasFill(p) =>
                  /\ conf_mask'[p] = FirstMatch(p)
                  /\ pixel_mask'[p] =
                        PutBit(pixel_mask[p], CF_CLOUD_BIT,
                               FirstMatch(p) = CLOUD_CONFIDENCE_HIGH)
                  /\ ExtremeCold(p) =>
                        /\ conf_mask'[p] = CLOUD_CONFIDENCE_HIGH
                        /\ CF_CLOUD_BIT \in pixel_mask'[p]
                  /\ (CF_CLOUD_BIT \notin pixel_mask[p] /\ ~ExtremeCold(p))
                        => conf_mask'[p] = CLOUD_CONFIDENCE_LOW]_vars

C11_Witness ==
    /\ pc = "done"
    /\ \E p \in Pix : /\ ~BasicCloudTest(InPx(p))
                       /\ ExtremeCold(p)
                       /\ conf_mask[p] = CLOUD_CONFIDENCE_HIGH
                       /\ CF_CLOUD_BIT \in pixel_mask[p]
    /\ \E p \in Pix : /\ ~ExtremeCold(p)
                       /\ conf_mask[p] = CLOUD_CONFIDENCE_LOW

\* a step of the NIR section / of the SWIR1 section of the parallel region
NirStep == nir_task = "todo" /\ nir_task' # "todo"
Swir1Step == swir1_task = "todo" /\ swir1_task' # "todo"

\* C12: in every interleaving of the two flood-fill sections each section
\* leaves the other raster and both input rasters as they are and a
\* successful section fills its raster from its own input only; the region
\* ends only when both sections have run; the run then fails exactly when a
\* section reported failure, and when none did the status of the preceding
\* percentile call is kept and the sixth pass starts.
C12_FloodFillSections ==
    /\ [][NirStep =>
            /\ filled_swir1_data' = filled_swir1_data
            /\ nir_data' = nir_data /\ swir1_data' = swir1_data
            /\ nir_task' = "done" =>
                  filled_nir_data' =
                      fill_local_minima_in_image(nir_data, nir_boundary)]_vars
    /\ [][Swir1Step =>
            /\ filled_nir_data' = filled_nir_data
            /\ nir_data' = nir_data /\ swir1_data' = swir1_data
            /\ swir1_task' = "done" =>
                  filled_swir1_data' =
                      fill_local_minima_in_image(swir1_data,
                                                 swir1_boundary)]_vars
    /\ [][(pc = "fill" /\ pc' # "fill") =>
            /\ nir_task # "todo" /\ swir1_task # "todo"
            /\ pc' = "failed" <=>
                  (nir_task = "failed" \/ swir1_task = "failed")
            /\ pc' # "failed" =>
                  /\ pc' = "p6"
                  /\ status' = status /\ status = "SUCCESS"]_vars
    /\ [](pc = "fill" =>
            (status = "ERROR" <=>
                (nir_task = "failed" \/ swir1_task = "failed")))

\* the SWIR1 section has run first and failed, the NIR section is still due
C12_Witness ==
    /\ pc = "fill"
    /\ nir_task = "todo"
    /\ swir1_task = "failed"
    /\ status = "ERROR"

\* the first pass is complete and the fourth has not yet rewritten CLOUD
BeforeP4 ==
    \/ pc \in {"branch", "p2", "p3alloc", "p3", "p4water"}
    \/ pc \in {"exit", "done"} /\ ShortcutTaken

\* the four chained tests of the first pass, on the pixel's own values
BasicHolds(px) ==
    /\ RLt(Ndsi(px), Rat(4, 5)) /\ RLt(Ndvi(px), Rat(4, 5))
    /\ px.swir2 > 300 /\ px.therm < 2700
WhitenessOf(px) ==
    IF VisSaturated(px) THEN Zero
    ELSE IF VisiMean(px) = Zero THEN RInt(100) ELSE WhiteRatio(px)
HotHolds(px) == RGt(Hot(px), Zero) \/ VisSaturated(px)
RatioHolds(px) == px.swir1 # 0 /\ RGt(Rat(px.nir, px.swir1), Rat(3, 4))

ClearMaskLive == AfterP1 /\ "clear_mask" \in alloc

Elems(f) == {f[i] : i \in 1 .. Len(f)}

\* lo and hi are the least and the greatest element of the non-empty sample
\* f, or both 0 for the empty sample
TrueMinMax(f, lo, hi) ==
    IF Len(f) = 0 THEN lo = 0 /\ hi = 0
    ELSE /\ lo \in Elems(f) /\ hi \in Elems(f)
         /\ \A x \in Elems(f) : lo <= x /\ x <= hi

\* C15: the minimum and maximum handed to prctile after the second pass
\* are the least and greatest collected thermal value of the land sample
\* and of the water sample when the sample is not empty, and 0 when it is.
C15_TrueMinMax ==
    pc = "p3alloc" =>
        /\ TrueMinMax(f_temp, f_temp_min, f_temp_max)
        /\ TrueMinMax(f_wtemp, f_wtemp_min, f_wtemp_max)

\* the columns of row r whose pixel the third pass treats as land
LandCols(r) ==
    {c \in 0 .. (ncols - 1) :
        /\ ~HasFill(r * ncols + c)
        /\ CF_WATER_BIT \notin pixel_mask[r * ncols + c]}

\* the greatest element of a non-empty set of columns
LastCol(S) == CHOOSE c \in S : \A d \in S : d <= c

\* C16: the whiteness the third pass computes for a non-fill, non-WATER
\* pixel is the whiteness the first pass defines for the same band values
\* (the ratio, 100 for a visible mean of 0, 0 on saturation); after a row
\* step the whiteness variable holds it for the last such pixel of the row.
C16_SameWhiteness ==
    [][(pc = "p3" /\ pc' = "p3" /\ row' = row + 1 /\ LandCols(row) # {})
         => whiteness' =
              WhitenessOf(InPx(row * ncols + LastCol(LandCols(row))))]_vars

\* the third pass is complete and the probability surfaces are still held
AfterP3 == \/ pc = "p3" /\ row >= nrows
           \/ pc \in {"p4water", "p4"}

\* C17: after the third pass final_prob and wfinal_prob of every pixel are
\* not negative; final_prob is 0 on WATER pixels, wfinal_prob is 0 on
\* non-WATER pixels and both are 0 on fill pixels.
C17_ProbSurfaces ==
    AfterP3 =>
        \A p \in Pix :
            /\ RGe(final_prob[p], Zero) /\ RGe(wfinal_prob[p], Zero)
            /\ HasFill(p) => final_prob[p] = Zero /\ wfinal_prob[p] = Zero
            /\ CF_WATER_BIT \in pixel_mask[p] => final_prob[p] = Zero
            /\ CF_WATER_BIT \notin pixel_mask[p] => wfinal_prob[p] = Zero

\* the NIR and SWIR1 values the sixth pass reads for pixel p
P6Px(p) == SubstBands(img.data[p], {"nir", "swir1"})

\* the two residuals of pixel p as exact integers
ExactNir(p) == filled_nir_data[p] - P6Px(p).nir
ExactSwir1(p) == filled_swir1_data[p] - P6Px(p).swir1

\* C18: after the sixth pass, every non-fill pixel whose filled values are
\* not below the originals has the SHADOW bit exactly when the smaller of
\* the two residuals, computed as exact integers, exceeds 200; the 16-bit
\* storage of the residuals does not change the outcome.
C18_ShadowExact ==
    AfterP6 =>
        \A p \in Pix :
            (~HasFill(p) /\ ExactNir(p) >= 0 /\ ExactSwir1(p) >= 0) =>
                (CF_SHADOW_BIT \in pixel_mask[p]
                    <=> Min2(ExactNir(p), ExactSwir1(p)) > 200)

\* a step changes the contents of a scratch array only while the array is
\* allocated
WritesLive ==
    /\ clear_mask' # clear_mask => "clear_mask" \in alloc'
    /\ f_temp' # f_temp => "f_temp" \in alloc'
    /\ f_wtemp' # f_wtemp => "f_wtemp" \in alloc'
    /\ final_prob' # final_prob => "final_prob" \in alloc'
    /\ wfinal_prob' # wfinal_prob => "wfinal_prob" \in alloc'
    /\ nir' # nir => "nir" \in alloc'
    /\ swir1' # swir1 => "swir1" \in alloc'
    /\ nir_data' # nir_data => "nir_data" \in alloc'
    /\ swir1_data' # swir1_data => "swir1_data" \in alloc'
    /\ filled_nir_data' # filled_nir_data => "filled_nir_data" \in alloc'
    /\ filled_swir1_data' # filled_swir1_data
          => "filled_swir1_data" \in alloc'

\* C19: along every execution that has not failed, the scratch arrays a
\* step reads or writes are allocated when it runs, no pointer holds a
\* released address (so no free releases an array a second time), a step
\* writes an array only while it is allocated, pixel_mask and conf_mask are
\* never among the released or allocated engine buffers, and at successful
\* return, through the shortcut or the six passes, nothing remains
\* allocated.
C19_ScratchLifecycle ==
    /\ [](pc # "failed" =>
            /\ Uses \subseteq alloc
            /\ dangling = {}
            /\ {"pixel_mask", "conf_mask"} \cap (alloc \cup dangling) = {})
    /\ [](pc = "done" => alloc = {})
    /\ [][pc' # "failed" => WritesLive]_vars

\* the six passes have returned SUCCESS and every scratch array has been
\* released
C19_Witness ==
    /\ FullReturn
    /\ alloc = {}
    /\ dangling = {}
    /\ reads = 5 * nrows

\* positions of the second to the fifth pass and of the flood fill
InP2toP5 == pc \in {"p2", "p3alloc", "p3", "p4water", "p4", "p5alloc",
                    "p5alloc_data", "p5", "fill"}

\* C20: at successful return through the six passes a non-fill pixel whose
\* confidence is MED or LOW has the WATER and SNOW bits the first pass wrote
\* from its water and snow tests; a step of the sixth pass clears WATER only
\* on a pixel whose confidence is HIGH and never changes SNOW; and a step
\* of the second to fifth pass changes no pixel_mask bit other than CLOUD.
C20_WaterRefineFrame ==
    /\ [](FullReturn =>
            \A p \in Pix :
                (~HasFill(p) /\ conf_mask[p] \in {CLOUD_CONFIDENCE_MED,
                                                  CLOUD_CONFIDENCE_LOW}) =>
                    /\ CF_WATER_BIT \in pixel_mask[p] <=> WaterTest(InPx(p))
                    /\ CF_SNOW_BIT \in pixel_mask[p] <=> SnowTest(InPx(p)))
    /\ [][pc = "p6" =>
            \A p \in Pix :
                /\ (CF_WATER_BIT \in pixel_mask[p]
                      /\ CF_WATER_BIT \notin pixel_mask'[p])
                        => conf_mask[p] = CLOUD_CONFIDENCE_HIGH
                /\ CF_WATER_BIT \in pixel_mask'[p]
                      => CF_WATER_BIT \in pixel_mask[p]
                /\ CF_SNOW_BIT \in pixel_mask'[p]
                      <=> CF_SNOW_BIT \in pixel_mask[p]]_vars
    /\ [][InP2toP5 =>
            \A p \in Pix :
                pixel_mask'[p] \ {CF_CLOUD_BIT}
                    = pixel_mask[p] \ {CF_CLOUD_BIT}]_vars

\* the six passes returned an image with a MED or LOW water pixel that kept
\* WATER and a HIGH pixel that passed the water test and lost WATER
C20_Witness ==
    /\ FullReturn
    /\ \E p \in Pix :
          /\ ~HasFill(p)
          /\ conf_mask[p] \in {CLOUD_CONFIDENCE_MED, CLOUD_CONFIDENCE_LOW}
          /\ CF_WATER_BIT \in pixel_mask[p]
    /\ \E q \in Pix :
          /\ conf_mask[q] = CLOUD_CONFIDENCE_HIGH
          /\ WaterTest(InPx(q))
          /\ CF_WATER_BIT \notin pixel_mask[q]

\* the second pass has been set up and the shortcut was not taken
AfterP2Alloc == \/ pc \in {"p2", "p3alloc", "p3", "p4water", "p4", "p5alloc",
                           "p5alloc_data", "p5", "fill", "p6"}
                \/ pc \in {"exit", "done"} /\ ~ShortcutTaken
SomeData == \E p \in Pix : ~HasFill(p)
HasClear(bit) == \E p \in Pix : bit \in clear_mask[p]
Filled(n) == n >= 1 /\ n <= pixel_count

\* C21: when the shortcut is not taken and some pixel is not fill, land_bit
\* is CLEAR_LAND only if a clear-land pixel exists and is CLEAR if none
\* exists, likewise water_bit, and a CLEAR pixel exists; the land and water
\* samples of the second pass, the prob and wprob samples of the threshold
\* stage and the nir and swir1 samples of the fifth pass each hold at least
\* one and at most pixel_count entries, and no sample ever grows beyond
\* pixel_count entries.
C21_SamplesNonEmpty ==
    (AfterP2Alloc /\ SomeData) =>
        /\ land_bit = CF_CLEAR_LAND_BIT => HasClear(CF_CLEAR_LAND_BIT)
        /\ ~HasClear(CF_CLEAR_LAND_BIT) => land_bit = CF_CLEAR_BIT
        /\ water_bit = CF_CLEAR_WATER_BIT => HasClear(CF_CLEAR_WATER_BIT)
        /\ ~HasClear(CF_CLEAR_WATER_BIT) => water_bit = CF_CLEAR_BIT
        /\ HasClear(CF_CLEAR_BIT)
        /\ Len(f_temp) <= pixel_count /\ Len(f_wtemp) <= pixel_count
        /\ Len(nir) <= pixel_count /\ Len(swir1) <= pixel_count
        /\ (pc = "p2" /\ row >= nrows) =>
                Filled(Len(f_temp)) /\ Filled(Len(f_wtemp))
        /\ (pc = "p3" /\ row >= nrows) =>
                Filled(Len(Gather(final_prob, land_bit, 0)))
        /\ pc = "p4water" =>
                Filled(Len(Gather(wfinal_prob, water_bit, 0)))
        /\ (pc = "p5" /\ row >= nrows) =>
                Filled(Len(nir)) /\ Filled(Len(swir1))

\* the fifth pass has gathered its sample from an image with a cloud pixel
\* and clear water only, so that land_bit fell back to CLEAR
C21_Witness ==
    /\ pc = "p5" /\ row >= nrows
    /\ SomeData
    /\ land_bit = CF_CLEAR_BIT
    /\ water_bit = CF_CLEAR_WATER_BIT
    /\ ~HasClear(CF_CLEAR_LAND_BIT)
    /\ \E p \in Pix : ~HasFill(p) /\ clear_mask[p] = CF_CLEAR_NONE
    /\ Len(nir) = 1

\* the first pass over the rows r .. nrows - 1, started from st
RECURSIVE P1Rows(_, _)
P1Rows(r, st) ==
    IF r >= nrows THEN st ELSE P1Rows(r + 1, P1Cols(r, 0, st))

\* the pixel_mask the first pass leaves on the same image when the entry
\* pixel_mask is zeroed
P1FromZeroMask ==
    P1Rows(0, [pm |-> [p \in Pix |-> {}],
               cm |-> [p \in Pix |-> CF_CLEAR_NONE],
               w |-> Zero, data |-> 0, clear |-> 0, land |-> 0,
               water |-> 0]).pm

\* C22: whatever pixel_mask the caller passes, the first pass leaves the
\* pixel_mask that the run from a zeroed pixel_mask leaves, so that a FILL
\* or SHADOW bit set at entry on a non-fill pixel does not survive it; at
\* successful return the FILL bit marks exactly the fill pixels of the
\* input, and on the path through the six passes no non-fill pixel was
\* skipped: its conf_mask holds a confidence.
C22_EntryMaskIndependent ==
    /\ pc = "branch" => pixel_mask = P1FromZeroMask
    /\ pc = "done" =>
            \A p \in Pix : HasFill(p) <=> IsFillInput(InPx(p))
    /\ FullReturn =>
            \A p \in Pix :
                ~IsFillInput(InPx(p)) =>
                    conf_mask[p] \in {CLOUD_CONFIDENCE_LOW,
                                      CLOUD_CONFIDENCE_MED,
                                      CLOUD_CONFIDENCE_HIGH}

====
